---- MODULE Spec2Model ----
(***************************************************************************)
(* Model of the loan-default prediction service (api/app.py): the loaded   *)
(* model objects, the APIMetrics counters, and the /predict and            *)
(* /batch_predict handlers with their inline SHAP ranking.                 *)
(*                                                                         *)
(* Numbers.  A SHAP contribution or a probability is an integer counted in *)
(* 1/Quantum of 1e-4, so round(x, 4) maps it to a whole number of 1e-4     *)
(* units.  Elapsed times are whole milliseconds.  An approval rate is      *)
(* counted in hundredths of a percent.                                     *)
(***************************************************************************)
EXTENDS Integers, Sequences, FiniteSets, TLC

\* ------------------------------------------------------------------ bounds
MaxFeatures == 6
MaxBatch == 2
MaxRequests == 2
Quantum == 3

\* The literal 5 of the slice [:5].
TopK == 5

\* Python's None is the empty tuple; a loaded object is a non-empty one.
None == <<>>

VARIABLES
    model,               \* module global `model`
    preprocessor,        \* module global `preprocessor` (None or its fitted feature names)
    explainer,           \* module global `explainer`
    feature_names_list,  \* module global `feature_names_list`
    metrics,             \* module global `metrics` (APIMetrics)
    request,             \* the request last handled
    response,            \* the response to it
    rows_started,        \* rows of the last request handed to preprocessor.transform
    served,              \* history: the results returned so far, one view per row
    completed,           \* history: requests completed, those answered 200, decisions returned
    metrics_before       \* history: the counters when the last request arrived

vars == <<model, preprocessor, explainer, feature_names_list, metrics,
          request, response, rows_started, served, completed, metrics_before>>

loaded == <<model, preprocessor, explainer, feature_names_list>>

\* -------------------------------------------------------------- arithmetic
Abs(x) == IF x < 0 THEN -x ELSE x

Min(a, b) == IF a <= b THEN a ELSE b

\* round(num / den) for num >= 0, den > 0; an exact half goes to the even
\* neighbour, as Python's round() does.
RoundDiv(num, den) ==
    LET q == num \div den
        r == num % den
    IN  IF 2 * r < den THEN q
        ELSE IF 2 * r > den THEN q + 1
        ELSE IF q % 2 = 0 THEN q ELSE q + 1

\* round(x, 4): x in 1/Quantum of 1e-4, the result in units of 1e-4.
Round4(x) == IF x < 0 THEN -RoundDiv(-x, Quantum) ELSE RoundDiv(x, Quantum)

\* ------------------------------------------------------------ APIMetrics
APIMetricsInit ==
    [total_requests |-> 0, total_predictions |-> 0, total_batch_predictions |-> 0,
     approved_count |-> 0, rejected_count |-> 0, error_count |-> 0,
     total_response_time |-> 0]

log_prediction(m, prediction, response_time) ==
    [m EXCEPT !.total_predictions = @ + 1,
              !.total_requests = @ + 1,
              !.total_response_time = @ + response_time,
              !.approved_count = IF prediction = "Approved" THEN @ + 1 ELSE @,
              !.rejected_count = IF prediction = "Approved" THEN @ ELSE @ + 1]

log_batch_prediction(m, count, approved, rejected, response_time) ==
    [m EXCEPT !.total_batch_predictions = @ + count,
              !.total_requests = @ + 1,
              !.approved_count = @ + approved,
              !.rejected_count = @ + rejected,
              !.total_response_time = @ + response_time]

log_error(m) == [m EXCEPT !.error_count = @ + 1]

\* ------------------------------------------------------- SHAP contributions
\* zip(names, values): pairs up to the shorter of the two.
Zip(names, values) ==
    [i \in 1..Min(Len(names), Len(values)) |-> <<names[i], values[i]>>]

\* feature_names_list if truthy (neither None nor empty), else
\* preprocessor.get_feature_names_out().
FeatureNames(fnl, prep) == IF fnl # None THEN fnl ELSE prep

\* The dict shap_contribution as its items() in insertion order.  A 3-d
\* result is indexed [0][0], a 2-d one [0].
ShapContribution(feature_names, shap_values) ==
    IF shap_values.ndim = 3
    THEN Zip(feature_names, shap_values.data[1][1])
    ELSE Zip(feature_names, shap_values.data[1])

\* Mutant: the key without abs().
SortKeySigned(item) == item[2]

\* Mutant: the key taken from the rounded contribution.
SortKeyRounded(item) == Abs(Round4(item[2]))

\* key=lambda x: abs(x[1])
SortKey(item) == Abs(item[2])

\* Mutant: an unstable sort, an item going in front of its equals.
RECURSIVE InsertDescUnstable(_, _)
InsertDescUnstable(done, item) ==
    IF done = <<>> THEN <<item>>
    ELSE IF SortKey(Head(done)) > SortKey(item)
         THEN <<Head(done)>> \o InsertDescUnstable(Tail(done), item)
         ELSE <<item>> \o done

\* Where a stable descending sort puts `item` among the already sorted
\* `done`: behind every element whose key is not smaller.
RECURSIVE InsertDesc(_, _)
InsertDesc(done, item) ==
    IF done = <<>> THEN <<item>>
    ELSE IF SortKey(Head(done)) >= SortKey(item)
         THEN <<Head(done)>> \o InsertDesc(Tail(done), item)
         ELSE <<item>> \o done

\* sorted(items, key=..., reverse=True): stable, equal keys keep input order.
RECURSIVE SortedDesc(_)
SortedDesc(items) ==
    IF items = <<>> THEN <<>>
    ELSE InsertDesc(SortedDesc(SubSeq(items, 1, Len(items) - 1)), items[Len(items)])

\* Mutant: the slice forgotten.
TopSliceAll(items) == items

\* [:5]
TopSlice(items) == SubSeq(items, 1, Min(TopK, Len(items)))

\* 'Positive' if contrib > 0 else 'Negative'
Impact(contrib) == IF contrib > 0 THEN "Positive" ELSE "Negative"

\* Mutant: the impact taken from the rounded contribution.
TopFactorRoundedFirst(item) ==
    [feature |-> item[1], contribution |-> Round4(item[2]),
     impact |-> Impact(Round4(item[2]))]

\* One entry of top_factors: the name, round(contrib, 4) and the impact of
\* the unrounded contrib.
TopFactor(item) ==
    [feature |-> item[1], contribution |-> Round4(item[2]), impact |-> Impact(item[2])]

TopFactors(shap_contribution) ==
    LET sorted_features == TopSlice(SortedDesc(shap_contribution))
    IN  [i \in 1..Len(sorted_features) |-> TopFactor(sorted_features[i])]

PredictionLabel(prediction) == IF prediction = 1 THEN "Approved" ELSE "Rejected"

\* ------------------------------------------------------------------ inputs
\* The fitted feature layout: n uniquely named features, in fit order.
Names(n) == [i \in 1..n |-> "f" \o ToString(i)]

\* What the frozen pipeline and model return for one application: the library
\* call that raises (if any), model.predict, model.predict_proba[:, 1] and
\* explainer.shap_values.
Row(fails, outcome, shap_values) ==
    [fails |-> fails, prediction |-> outcome[1], probability |-> outcome[2],
     shap_values |-> shap_values]

\* predict is the arg-max of predict_proba: a label with a probability on
\* its side of one half.
Outcomes == {<<0, 1>>, <<1, 10000 * Quantum - 1>>}

Array2(values) == [ndim |-> 2, data |-> <<values>>]

\* A per-class result: axis 0 the row, axis 1 the feature, axis 2 the class.
Array3(values) ==
    [ndim |-> 3, data |-> <<[i \in 1..Len(values) |-> <<-values[i], values[i]>>]>>]

\* Contributions below the display quantum, with a zero and a tie in
\* magnitude; every vector over them is enumerated.
SmallContribs == {-1, 0, 1}

\* Contributions of several magnitudes: ties (2, -2 and -4, 4), pairs that
\* round alike (2 and 4), zero.
Pattern == <<2, -2, 1, 0, -4, 5, 4, -1>>

Failing(call) == Row(call, <<0, 0>>, Array2(<<>>))

\* The window starting at offset o of the pattern.
Window(n, o) == [i \in 1..n |-> Pattern[((o + i - 2) % Len(Pattern)) + 1]]

Windows(n) == {Window(n, o) : o \in 1..Len(Pattern)}

WindowRows(n) ==
    {Row("none", oc, a) : oc \in Outcomes,
                          a \in {Array2(v) : v \in Windows(n)} \cup {Array3(v) : v \in Windows(n)}}

\* The documented ranking example {A: 0.5, B: -0.8, C: 0.3, D: 0.1, E: 0.05,
\* F: 0.9}, for a model of as many features.
Example ==
    <<5000 * Quantum, -8000 * Quantum, 3000 * Quantum, 1000 * Quantum, 500 * Quantum,
      9000 * Quantum>>

Examples(n) == IF n = Len(Example) THEN {Example} ELSE {}

\* Wide inputs.  A /predict request carries any vector over SmallContribs
\* (on a rejected application), any window as a 2-d or a 3-d result with
\* either outcome, the documented example, or an application on which a
\* library call raises.
WideApplications(n) ==
    {Row("none", <<0, 1>>, Array2(v)) : v \in [1..n -> SmallContribs]}
        \cup WindowRows(n)
        \cup {Row("none", <<1, 10000 * Quantum - 1>>, Array2(v)) : v \in Examples(n)}
        \cup {Failing(call) : call \in {"transform", "predict", "shap"}}

\* The rows of a wide /batch_predict request: every window, approved at odd
\* offsets and rejected at even ones, two per-class results, a failing row.
WideRows(n) ==
    {Row("none", IF o % 2 = 1 THEN <<1, 10000 * Quantum - 1>> ELSE <<0, 1>>,
         Array2(Window(n, o))) : o \in 1..Len(Pattern)}
        \cup {Row("none", <<1, 10000 * Quantum - 1>>, Array3(Window(n, 1))),
              Row("none", <<0, 1>>, Array3(Window(n, 5))),
              Failing("shap")}

\* Narrow inputs, for runs of several requests: an approved application, a
\* rejected one and one that fails.
NarrowApplications(n) ==
    {Row("none", <<1, 10000 * Quantum - 1>>, Array2(Window(n, 1))),
     Row("none", <<0, 1>>, Array2(Window(n, 2))),
     Failing("transform")}

RECURSIVE SeqsUpTo(_, _)
SeqsUpTo(S, n) ==
    IF n = 0 THEN {<<>>}
    ELSE LET shorter == SeqsUpTo(S, n - 1)
         IN  shorter \cup {Append(s, x) : s \in {t \in shorter : Len(t) = n - 1}, x \in S}

\* ------------------------------------------------------------------ startup
LoadSteps == {"load_model", "load_preprocessor", "extract", "transform_sample", "explainer"}

\* Mutant: the except clause does not reset what the try body had assigned
\* before the step that raised.
StartupLoadNoReset(failed, n, is_dict) ==
    <<IF failed = "load_model" THEN None ELSE <<"XGBClassifier">>,
      IF failed \in {"load_model", "load_preprocessor", "extract"} THEN None ELSE Names(n),
      IF failed # "none" THEN None ELSE <<"TreeExplainer">>,
      IF failed \in {"load_model", "load_preprocessor", "extract"} \/ ~is_dict
      THEN None ELSE Names(n)>>

\* The module-level try/except: the four globals after loading a model of n
\* features, the preprocessor file holding a dict or the bare pipeline, the
\* step `failed` raising ("none": no step raises).
StartupLoad(failed, n, is_dict) ==
    IF failed # "none"
    THEN <<None, None, None, None>>
    ELSE <<<<"XGBClassifier">>, Names(n), <<"TreeExplainer">>,
           IF is_dict THEN Names(n) ELSE None>>

InitOver(counts) ==
    /\ \E failed \in LoadSteps \cup {"none"}, n \in counts, is_dict \in BOOLEAN :
           LET globals == StartupLoad(failed, n, is_dict)
           IN  /\ model = globals[1]
               /\ preprocessor = globals[2]
               /\ explainer = globals[3]
               /\ feature_names_list = globals[4]
    /\ metrics = APIMetricsInit
    /\ request = [endpoint |-> "none"]
    /\ response = [status_code |-> 0]
    /\ rows_started = 0
    /\ served = {}
    /\ completed = [requests |-> 0, ok |-> 0, decisions |-> 0]
    /\ metrics_before = APIMetricsInit

\* ----------------------------------------------------------------- handlers
HTTPException(status_code, detail) == [status_code |-> status_code, detail |-> detail]

Handled == metrics.total_requests + metrics.error_count

\* The feature count of the loaded model (of no account when none is loaded).
Layout == IF preprocessor = None THEN 1 ELSE Len(preprocessor)

\* Mutant: the availability check forgotten.
NotLoadedNever(m, p) == FALSE

\* if model is None or preprocessor is None
NotLoaded(m, p) == m = None \/ p = None

\* Mutant: a probability that drifts with the number of requests served.
PredictRowWarm(application, fnl, prep) ==
    IF application.fails # "none"
    THEN [raised |-> application.fails]
    ELSE LET shap_contribution ==
                 ShapContribution(FeatureNames(fnl, prep), application.shap_values)
         IN  [raised |-> "none",
              prediction |-> application.prediction,
              probability |-> application.probability + Quantum * metrics.total_requests,
              shap_contribution |-> shap_contribution,
              top_factors |-> TopFactors(shap_contribution)]

\* The try body of predict, up to the top factors: `raised` names the call
\* that raised.
PredictRow(application, fnl, prep) ==
    IF application.fails # "none"
    THEN [raised |-> application.fails]
    ELSE LET shap_contribution ==
                 ShapContribution(FeatureNames(fnl, prep), application.shap_values)
         IN  [raised |-> "none",
              prediction |-> application.prediction,
              probability |-> application.probability,
              shap_contribution |-> shap_contribution,
              top_factors |-> TopFactors(shap_contribution)]

Predict(application, response_time) ==
    /\ Handled < MaxRequests
    /\ request' = [endpoint |-> "predict", application |-> application]
    /\ UNCHANGED loaded
    /\ IF NotLoaded(model, preprocessor)
       THEN /\ metrics' = log_error(metrics)
            /\ response' = HTTPException(503, "Model not loaded")
            /\ rows_started' = 0
       ELSE LET row == PredictRow(application, feature_names_list, preprocessor)
            IN  /\ rows_started' = 1
                /\ IF row.raised # "none"
                   THEN /\ metrics' = log_error(metrics)
                        /\ response' = HTTPException(500, row.raised)
                   ELSE LET prediction_label == PredictionLabel(row.prediction)
                        IN  /\ metrics' = log_prediction(metrics, prediction_label, response_time)
                            /\ response' =
                                   [status_code |-> 200,
                                    prediction |-> prediction_label,
                                    probability |-> Round4(row.probability),
                                    shap_contributions |-> row.shap_contribution,
                                    top_factors |-> row.top_factors,
                                    response_time_seconds |-> response_time]

\* Mutant: application_id taken as the 0-based idx.
BatchRowZeroBased(idx, application, fnl, prep) ==
    IF application.fails # "none"
    THEN [raised |-> application.fails]
    ELSE LET shap_contribution ==
                 ShapContribution(FeatureNames(fnl, prep), application.shap_values)
         IN  [raised |-> "none",
              record |-> [application_id |-> idx,
                          prediction |-> PredictionLabel(application.prediction),
                          probability |-> Round4(application.probability),
                          top_factors |-> TopFactors(shap_contribution)]]

\* Mutant: the batch path ranks the rounded contributions of the first
\* three features only.
BatchRowDrifted(idx, application, fnl, prep) ==
    IF application.fails # "none"
    THEN [raised |-> application.fails]
    ELSE LET shap_contribution ==
                 ShapContribution(FeatureNames(fnl, prep), application.shap_values)
         IN  [raised |-> "none",
              record |-> [application_id |-> idx + 1,
                          prediction |-> PredictionLabel(application.prediction),
                          probability |-> Round4(application.probability),
                          top_factors |-> TopFactors(SubSeq(shap_contribution, 1,
                                                            Min(3, Len(shap_contribution))))]]

\* One pass of the batch loop body: the record appended for the row at
\* 0-based position idx, or the call that raised.
BatchRow(idx, application, fnl, prep) ==
    IF application.fails # "none"
    THEN [raised |-> application.fails]
    ELSE LET shap_contribution ==
                 ShapContribution(FeatureNames(fnl, prep), application.shap_values)
         IN  [raised |-> "none",
              record |-> [application_id |-> idx + 1,
                          prediction |-> PredictionLabel(application.prediction),
                          probability |-> Round4(application.probability),
                          top_factors |-> TopFactors(shap_contribution)]]

\* Mutant: a row that raises is skipped and the loop goes on.
RECURSIVE BatchLoopSkipFailed(_, _, _, _, _)
BatchLoopSkipFailed(applications, idx, results, fnl, prep) ==
    IF idx >= Len(applications)
    THEN [raised |-> "none", results |-> results, started |-> idx]
    ELSE LET row == BatchRow(idx, applications[idx + 1], fnl, prep)
         IN  IF row.raised # "none"
             THEN BatchLoopSkipFailed(applications, idx + 1, results, fnl, prep)
             ELSE BatchLoopSkipFailed(applications, idx + 1, Append(results, row.record),
                                      fnl, prep)

\* for idx, app in enumerate(request.applications): the loop from 0-based
\* position idx on, `results` holding the records so far.  It stops at the
\* first row that raises.
RECURSIVE BatchLoop(_, _, _, _, _)
BatchLoop(applications, idx, results, fnl, prep) ==
    IF idx >= Len(applications)
    THEN [raised |-> "none", results |-> results, started |-> idx]
    ELSE LET row == BatchRow(idx, applications[idx + 1], fnl, prep)
         IN  IF row.raised # "none"
             THEN [raised |-> row.raised, results |-> results, started |-> idx + 1]
             ELSE BatchLoop(applications, idx + 1, Append(results, row.record), fnl, prep)

\* Mutant: the count without its filter.
CountLabelAny(results, label) == Len(results)

\* sum(1 for r in results if r["prediction"] == label)
CountLabel(results, label) ==
    Cardinality({i \in 1..Len(results) : results[i].prediction = label})

\* round(approved / total * 100, 2), in hundredths of a percent; total > 0.
ApprovalRate(approved, total) == RoundDiv(approved * 10000, total)

BatchPredict(applications, response_time) ==
    /\ Handled < MaxRequests
    /\ request' = [endpoint |-> "batch_predict", applications |-> applications]
    /\ UNCHANGED loaded
    /\ IF NotLoaded(model, preprocessor)
       THEN /\ metrics' = log_error(metrics)
            /\ response' = HTTPException(503, "Model not loaded")
            /\ rows_started' = 0
       ELSE LET loop == BatchLoop(applications, 0, <<>>, feature_names_list, preprocessor)
                results == loop.results
                approved == CountLabel(results, "Approved")
                rejected == CountLabel(results, "Rejected")
                logged == log_batch_prediction(metrics, Len(results), approved, rejected,
                                               response_time)
            IN  /\ rows_started' = loop.started
                /\ IF loop.raised # "none"
                   THEN /\ metrics' = log_error(metrics)
                        /\ response' = HTTPException(500, loop.raised)
                   ELSE IF Len(results) = 0
                   THEN \* approved / len(results) raises ZeroDivisionError after
                        \* the batch has been logged
                        /\ metrics' = log_error(logged)
                        /\ response' = HTTPException(500, "division by zero")
                   ELSE /\ metrics' = logged
                        /\ response' =
                               [status_code |-> 200,
                                predictions |-> results,
                                total_processed |-> Len(results),
                                approved |-> approved,
                                rejected |-> rejected,
                                approval_rate_percent |-> ApprovalRate(approved, Len(results)),
                                response_time_seconds |-> response_time]

\* Mutant: /health refuses when no model is loaded.
HealthWhenLoaded ==
    /\ request' = [endpoint |-> "health"]
    /\ UNCHANGED <<loaded, metrics, served, completed>>
    /\ metrics_before' = metrics
    /\ rows_started' = 0
    /\ IF model = None
       THEN response' = HTTPException(503, "Model not loaded")
       ELSE response' = [status_code |-> 200,
                         status |-> "healthy",
                         model_loaded |-> TRUE,
                         preprocessor_loaded |-> preprocessor # None]

\* GET /health
Health ==
    /\ request' = [endpoint |-> "health"]
    /\ UNCHANGED <<loaded, metrics, served, completed>>
    /\ metrics_before' = metrics
    /\ rows_started' = 0
    /\ response' = [status_code |-> 200,
                    status |-> "healthy",
                    model_loaded |-> model # None,
                    preprocessor_loaded |-> preprocessor # None]

\* Mutant: the approval rate taken over the single predictions, as
\* monitoring.APIMetrics.get_stats does.
get_stats_over_predictions(m) ==
    [total_requests |-> m.total_requests,
     total_predictions |-> m.total_predictions,
     total_batch_predictions |-> m.total_batch_predictions,
     approved_count |-> m.approved_count,
     rejected_count |-> m.rejected_count,
     approval_rate_percent |->
         IF m.total_predictions > 0
         THEN RoundDiv(m.approved_count * 10000, m.total_predictions) ELSE 0,
     error_count |-> m.error_count,
     avg_response_time_seconds |->
         IF m.total_requests > 0
         THEN RoundDiv(m.total_response_time, m.total_requests) ELSE 0]

\* APIMetrics.get_stats: the approval rate in hundredths of a percent, the
\* average response time in milliseconds (round(x, 3) of seconds).  The two
\* uptime fields read the clock only.
get_stats(m) ==
    LET total_decisions == m.approved_count + m.rejected_count
    IN  [total_requests |-> m.total_requests,
         total_predictions |-> m.total_predictions,
         total_batch_predictions |-> m.total_batch_predictions,
         approved_count |-> m.approved_count,
         rejected_count |-> m.rejected_count,
         approval_rate_percent |->
             IF total_decisions > 0
             THEN RoundDiv(m.approved_count * 10000, total_decisions) ELSE 0,
         error_count |-> m.error_count,
         avg_response_time_seconds |->
             IF m.total_requests > 0
             THEN RoundDiv(m.total_response_time, m.total_requests) ELSE 0]

\* GET /metrics
GetMetrics ==
    /\ request' = [endpoint |-> "metrics"]
    /\ UNCHANGED <<loaded, metrics, served, completed>>
    /\ metrics_before' = metrics
    /\ rows_started' = 0
    /\ response' = [status_code |-> 200, stats |-> get_stats(metrics)]

\* GET /model_info
ModelInfo ==
    /\ request' = [endpoint |-> "model_info"]
    /\ UNCHANGED <<loaded, metrics, served, completed>>
    /\ metrics_before' = metrics
    /\ rows_started' = 0
    /\ IF model = None
       THEN response' = HTTPException(503, "Model not loaded")
       ELSE LET features ==
                    IF feature_names_list # None THEN feature_names_list
                    ELSE IF preprocessor # None THEN preprocessor ELSE <<>>
            IN  response' = [status_code |-> 200,
                             model_type |-> model[1],
                             n_features |-> Len(features),
                             feature_names |-> features]

\* Mutant: the contributions returned without the sort.
get_feature_contributions_unsorted(feature_names, shap_values) ==
    IF shap_values.ndim = 3 THEN [raised |-> "TypeError"]
    ELSE IF Len(feature_names) > Len(shap_values.data[1]) THEN [raised |-> "IndexError"]
    ELSE [raised |-> "none",
          contributions |->
              [i \in 1..Len(feature_names) |-> <<feature_names[i], shap_values.data[1][i]>>]]

\* ModelExplainer.get_feature_contributions, from the SHAP values on: one
\* float(shap_values_sample[0][i]) per feature name, then the dict rebuilt
\* from its items sorted by absolute value, descending.  float() of a
\* per-class array raises TypeError; a name without a value, IndexError.
get_feature_contributions(feature_names, shap_values) ==
    IF shap_values.ndim = 3 THEN [raised |-> "TypeError"]
    ELSE IF Len(feature_names) > Len(shap_values.data[1]) THEN [raised |-> "IndexError"]
    ELSE [raised |-> "none",
          contributions |->
              SortedDesc([i \in 1..Len(feature_names) |->
                              <<feature_names[i], shap_values.data[1][i]>>])]

\* A call of ModelExplainer.get_feature_contributions on the transformed row
\* of an application, the explainer built from the loaded model and its
\* feature names.  It is no HTTP exchange: status_code stays 0.
GetFeatureContributions(application) ==
    /\ ~NotLoaded(model, preprocessor)
    /\ application.fails \in {"none", "shap"}
    /\ request' = [endpoint |-> "get_feature_contributions", application |-> application]
    /\ UNCHANGED <<loaded, metrics, served, completed>>
    /\ metrics_before' = metrics
    /\ rows_started' = 0
    /\ IF application.fails = "shap"
       THEN response' = [status_code |-> 0, raised |-> "shap"]
       ELSE LET result ==
                    get_feature_contributions(
                        FeatureNames(feature_names_list, preprocessor),
                        application.shap_values)
            IN  IF result.raised # "none"
                THEN response' = [status_code |-> 0, raised |-> result.raised]
                ELSE response' = [status_code |-> 0, raised |-> "none",
                                  contributions |-> result.contributions]

ExplainerCall(applications_in) ==
    \E application \in applications_in : GetFeatureContributions(application)

\* The results a response returns, one view per row: the request's ordinal,
\* the path, the row's position, the application and what was returned for it.
Views(seq, req, resp) ==
    IF resp.status_code # 200 THEN {}
    ELSE IF req.endpoint = "predict"
    THEN {[seq |-> seq, path |-> "predict", position |-> 1,
           application |-> req.application,
           prediction |-> resp.prediction,
           probability |-> resp.probability,
           top_factors |-> resp.top_factors,
           shap_contributions |-> resp.shap_contributions]}
    ELSE {[seq |-> seq, path |-> "batch_predict", position |-> i,
           application |-> req.applications[i],
           prediction |-> resp.predictions[i].prediction,
           probability |-> resp.predictions[i].probability,
           top_factors |-> resp.predictions[i].top_factors] :
              i \in 1..Len(resp.predictions)}

\* The history variables after a /predict or /batch_predict exchange.
Observe ==
    LET views == Views(completed.requests + 1, request', response')
    IN  /\ metrics_before' = metrics
        /\ served' = served \cup views
        /\ completed' = [requests |-> completed.requests + 1,
                         ok |-> completed.ok + (IF response'.status_code = 200 THEN 1 ELSE 0),
                         decisions |-> completed.decisions + Cardinality(views)]

PredictRequest(applications_in, times) ==
    \E application \in applications_in, response_time \in times :
        Predict(application, response_time) /\ Observe

BatchPredictRequest(rows_in, times) ==
    \E applications \in SeqsUpTo(rows_in, MaxBatch), response_time \in times :
        BatchPredict(applications, response_time) /\ Observe

\* Runs of up to MaxRequests requests over the narrow inputs.
Init == InitOver({MaxFeatures})

Next ==
    \/ PredictRequest(NarrowApplications(Layout), {1})
    \/ BatchPredictRequest(NarrowApplications(Layout), {1})
    \/ Health
    \/ GetMetrics

Spec == Init /\ [][Next]_vars

\* The first request after startup, over the wide inputs and every feature
\* count up to MaxFeatures.
InitWide == InitOver(1..MaxFeatures)

FirstRequest == request.endpoint = "none"

NextWide ==
    \/ FirstRequest /\ PredictRequest(WideApplications(Layout), {0, 1})
    \/ FirstRequest /\ BatchPredictRequest(WideRows(Layout), {1})
    \/ FirstRequest /\ ModelInfo
    \/ FirstRequest /\ Health
    \/ FirstRequest /\ GetMetrics
    \/ FirstRequest /\ ExplainerCall(WideApplications(Layout))

SpecWide == InitWide /\ [][NextWide]_vars

\* ------------------------------------------------------------------ claims
ModelAvailable == model # None /\ preprocessor # None

PredictServed == request.endpoint = "predict" /\ response.status_code = 200

BatchServed == request.endpoint = "batch_predict" /\ response.status_code = 200

\* The raw attribution mapping of a row of the request.
RawOf(application) ==
    ShapContribution(FeatureNames(feature_names_list, preprocessor), application.shap_values)

\* Every (raw attribution mapping, top factors) pair of the response.
Ranked ==
    IF PredictServed
    THEN {[raw |-> response.shap_contributions, top |-> response.top_factors]}
    ELSE IF BatchServed
    THEN {[raw |-> RawOf(request.applications[i]),
           top |-> response.predictions[i].top_factors] :
              i \in 1..Min(Len(request.applications), Len(response.predictions))}
    ELSE {}

Features(raw) == {raw[i][1] : i \in 1..Len(raw)}

\* The position of a feature in the mapping's iteration order.
PosIn(raw, feature) == CHOOSE i \in 1..Len(raw) : raw[i][1] = feature

ValueIn(raw, feature) == raw[PosIn(raw, feature)][2]

\* The magnitude, unrounded, of the i-th top factor.
MagAt(p, i) == Abs(ValueIn(p.raw, p.top[i].feature))

TopFeatures(p) == {p.top[i].feature : i \in 1..Len(p.top)}

\* The top factors name features of the mapping, each at most once.
WellFormed(p) ==
    /\ TopFeatures(p) \subseteq Features(p.raw)
    /\ \A i, j \in 1..Len(p.top) : p.top[i].feature = p.top[j].feature => i = j

ValuesOf(raw) == [i \in 1..Len(raw) |-> raw[i][2]]

TopNames(top) == [i \in 1..Len(top) |-> top[i].feature]

\* C1: the top factors of /predict and of every batch row are the TopK
\* entries of the raw attribution mapping that are largest in absolute
\* contribution, in descending order of absolute contribution.
C1_TopFactorsLargestByMagnitude ==
    \A p \in Ranked :
        /\ WellFormed(p)
        /\ Len(p.raw) >= TopK => Len(p.top) = TopK
        /\ \A i \in 1..Len(p.top) - 1 : MagAt(p, i) >= MagAt(p, i + 1)
        /\ \A f \in Features(p.raw) \ TopFeatures(p) :
               \A i \in 1..Len(p.top) : Abs(ValueIn(p.raw, f)) <= MagAt(p, i)

\* The documented example is ranked [F, B, A, C, D], E left out.
C1_Witness ==
    /\ PredictServed
    /\ ValuesOf(response.shap_contributions) = Example
    /\ TopNames(response.top_factors) = <<"f6", "f2", "f1", "f3", "f4">>

\* C2: features of equal absolute contribution keep their order in the
\* input mapping, among the top factors and across the cut-off, where the
\* earlier one is kept.
C2_TiesKeepMappingOrder ==
    \A p \in Ranked :
        /\ WellFormed(p)
        /\ \A i, j \in 1..Len(p.top) :
               i < j /\ MagAt(p, i) = MagAt(p, j)
                   => PosIn(p.raw, p.top[i].feature) < PosIn(p.raw, p.top[j].feature)
        /\ \A f \in Features(p.raw) \ TopFeatures(p) :
               \A i \in 1..Len(p.top) :
                   Abs(ValueIn(p.raw, f)) = MagAt(p, i)
                       => PosIn(p.raw, p.top[i].feature) < PosIn(p.raw, f)

\* A batch row whose tie straddles the cut-off, with a tie of opposite signs
\* among the top factors.
C2_Witness ==
    /\ BatchServed
    /\ \E p \in Ranked :
           /\ \E f \in Features(p.raw) \ TopFeatures(p) :
                  Abs(ValueIn(p.raw, f)) = MagAt(p, Len(p.top))
           /\ \E i \in 1..Len(p.top) - 1 :
                  /\ MagAt(p, i) = MagAt(p, i + 1)
                  /\ ValueIn(p.raw, p.top[i].feature) # ValueIn(p.raw, p.top[i + 1].feature)

\* C3: every top factor shows round(contribution, 4), and two features
\* whose contributions round to the same value are still ordered, and cut,
\* by their unrounded magnitudes.
C3_RankingBeforeRounding ==
    \A p \in Ranked :
        /\ WellFormed(p)
        /\ \A i \in 1..Len(p.top) :
               p.top[i].contribution = Round4(ValueIn(p.raw, p.top[i].feature))
        /\ \A f, g \in Features(p.raw) :
               /\ Round4(ValueIn(p.raw, f)) = Round4(ValueIn(p.raw, g))
               /\ Abs(ValueIn(p.raw, f)) > Abs(ValueIn(p.raw, g))
               /\ g \in TopFeatures(p)
               => \E i, j \in 1..Len(p.top) :
                      i < j /\ p.top[i].feature = f /\ p.top[j].feature = g

\* Two contributions that round alike: one pair ranked by the unrounded
\* magnitudes against the mapping's order, one pair cut apart.
C3_Witness ==
    \E p \in Ranked :
        /\ \E i, j \in 1..Len(p.top) :
               /\ i < j
               /\ p.top[i].contribution = p.top[j].contribution
               /\ MagAt(p, i) > MagAt(p, j)
               /\ PosIn(p.raw, p.top[i].feature) > PosIn(p.raw, p.top[j].feature)
        /\ \E f \in Features(p.raw) \ TopFeatures(p) :
               /\ Round4(ValueIn(p.raw, f)) = p.top[Len(p.top)].contribution
               /\ Abs(ValueIn(p.raw, f)) < MagAt(p, Len(p.top))

\* C4: a top factor is labelled "Positive" exactly when its unrounded
\* contribution is greater than 0, and "Negative" otherwise.
C4_ImpactIsSignOfUnrounded ==
    \A p \in Ranked :
        /\ WellFormed(p)
        /\ \A i \in 1..Len(p.top) :
               p.top[i].impact =
                   IF ValueIn(p.raw, p.top[i].feature) > 0 THEN "Positive" ELSE "Negative"

\* A contribution of exactly 0 labelled "Negative" beside a positive one that
\* rounds to 0 and is labelled "Positive".
C4_Witness ==
    \E p \in Ranked :
        \E i, j \in 1..Len(p.top) :
            /\ ValueIn(p.raw, p.top[i].feature) = 0
            /\ p.top[i].impact = "Negative"
            /\ ValueIn(p.raw, p.top[j].feature) > 0
            /\ p.top[j].contribution = 0
            /\ p.top[j].impact = "Positive"

\* C6: a record has min(TopK, number of features) top factors, all of them
\* features of the mapping and none twice; a 2-d result gives the mapping
\* one entry per feature of the model.
C6_TopFactorsCount ==
    /\ \A p \in Ranked :
           /\ WellFormed(p)
           /\ Len(p.top) = Min(TopK, Len(p.raw))
    /\ PredictServed /\ request.application.shap_values.ndim = 2
           => Len(response.top_factors) = Min(TopK, Layout)
    /\ BatchServed
           => \A i \in 1..Len(response.predictions) :
                  request.applications[i].shap_values.ndim = 2
                      => Len(response.predictions[i].top_factors) = Min(TopK, Layout)

\* A model of 3 features: exactly its 3 features are returned.
C6_Witness ==
    /\ PredictServed
    /\ Layout = 3
    /\ Len(response.top_factors) = 3
    /\ {response.top_factors[i].feature : i \in 1..3} = {"f1", "f2", "f3"}

\* C7: a served batch of n applications has n records, the record at
\* position i being the result for application i with application_id its
\* 1-based position.
C7_BatchKeepsInputOrder ==
    BatchServed =>
        /\ Len(response.predictions) = Len(request.applications)
        /\ \A i \in 1..Len(response.predictions) :
               LET record == response.predictions[i]
                   application == request.applications[i]
               IN  /\ record.application_id = i
                   /\ record.prediction =
                          (IF application.prediction = 1 THEN "Approved" ELSE "Rejected")
                   /\ record.probability = Round4(application.probability)
                   /\ TopNames(record.top_factors)
                          = TopNames(TopFactors(RawOf(application)))

\* A rejected row ahead of an approved one, with different top factors.
C7_Witness ==
    /\ BatchServed
    /\ Len(response.predictions) = 2
    /\ response.predictions[1].prediction = "Rejected"
    /\ response.predictions[2].prediction = "Approved"
    /\ response.predictions[1].top_factors # response.predictions[2].top_factors

\* The first row of the batch on which a library call raises (0: none).
FirstFailing(applications) ==
    IF \E i \in 1..Len(applications) : applications[i].fails # "none"
    THEN CHOOSE i \in 1..Len(applications) :
             /\ applications[i].fails # "none"
             /\ \A j \in 1..i - 1 : applications[j].fails = "none"
    ELSE 0

\* C8: when a row of a batch fails, with the model available, the request
\* fails with an error that carries neither predictions nor a summary, and
\* no row behind the failing one is processed.
C8_BatchAbortsOnRowFailure ==
    /\ request.endpoint = "batch_predict"
    /\ ModelAvailable
    /\ FirstFailing(request.applications) # 0
    => /\ response.status_code = 500
       /\ DOMAIN response = {"status_code", "detail"}
       /\ rows_started = FirstFailing(request.applications)

\* A batch whose first row is fine and whose second row fails.
C8_Witness ==
    /\ request.endpoint = "batch_predict"
    /\ ModelAvailable
    /\ Len(request.applications) = 2
    /\ FirstFailing(request.applications) = 2
    /\ response.status_code = 500

\* C9: in a served batch approved counts the rows predicted 1, rejected the
\* rows predicted 0, and they add up to total_processed, the number of
\* applications.
C9_BatchSummaryCounts ==
    BatchServed =>
        LET rows == 1..Len(request.applications)
        IN  /\ response.approved
                   = Cardinality({i \in rows : request.applications[i].prediction = 1})
            /\ response.rejected
                   = Cardinality({i \in rows : request.applications[i].prediction = 0})
            /\ response.approved + response.rejected = response.total_processed
            /\ response.total_processed = Len(request.applications)

\* A served batch of one approved and one rejected row.
C9_Witness ==
    /\ BatchServed
    /\ response.approved = 1
    /\ response.rejected = 1

\* C10: a batch no row of which fails is served with the approval rate
\* approved / total * 100 rounded to 2 places, 0 for a batch of no rows.
C10_ApprovalRate ==
    /\ request.endpoint = "batch_predict"
    /\ ModelAvailable
    /\ FirstFailing(request.applications) = 0
    => /\ response.status_code = 200
       /\ LET total == Len(request.applications)
              approved ==
                  Cardinality({i \in 1..total : request.applications[i].prediction = 1})
          IN  response.approval_rate_percent
                  = IF total = 0 THEN 0 ELSE RoundDiv(approved * 10000, total)

\* C11: with the model or the preprocessor absent, /predict, /batch_predict
\* and /model_info answer 503 with nothing but the error, and no row is
\* handed to the pipeline.
C11_UnavailableFailsFast ==
    /\ ~ModelAvailable
    /\ request.endpoint \in {"predict", "batch_predict", "model_info"}
    => /\ response.status_code = 503
       /\ DOMAIN response = {"status_code", "detail"}
       /\ rows_started = 0

\* A batch of two applications refused by a service whose model failed to
\* load.
C11_Witness ==
    /\ ~ModelAvailable
    /\ request.endpoint = "batch_predict"
    /\ Len(request.applications) = 2
    /\ response.status_code = 503

\* The library call whose exception ended the request ("none": no call
\* raised).  The pipeline transformed the sample row at startup, so a raise
\* in transform is the pipeline rejecting this request's row as malformed; a
\* raise in predict or shap_values is a failure of the computation.
RaisedIn ==
    IF request.endpoint = "predict" THEN request.application.fails
    ELSE IF FirstFailing(request.applications) = 0 THEN "none"
    ELSE request.applications[FirstFailing(request.applications)].fails

\* C12: a failed /predict or /batch_predict is classified by its cause:
\* 503 for an absent model or pipeline, a 4xx for a malformed input row, a
\* 5xx for a failure of the computation.
C12_ErrorsClassifiedByCause ==
    /\ request.endpoint \in {"predict", "batch_predict"}
    /\ response.status_code # 200
    => IF ~ModelAvailable THEN response.status_code = 503
       ELSE IF RaisedIn = "transform" THEN response.status_code \in 400..499
       ELSE response.status_code \in 500..599

\* The names of the model's features, in the order fixed at fit time.
FittedNames == FeatureNames(feature_names_list, preprocessor)

ExplainerReturned ==
    request.endpoint = "get_feature_contributions" /\ response.raised = "none"

\* The values the handlers pair with the feature names.
PairedValues(shap_values) ==
    IF shap_values.ndim = 3 THEN shap_values.data[1][1] ELSE shap_values.data[1]

\* The mapping has exactly one entry for every fitted feature.
OneEntryPerFeature(raw) ==
    /\ Len(raw) = Len(FittedNames)
    /\ Features(raw) = {FittedNames[i] : i \in 1..Len(FittedNames)}

\* C13: the raw attribution mapping returned for a row has exactly one
\* entry for every feature, whatever its contribution.
C13_EveryFeatureInMapping ==
    /\ PredictServed => OneEntryPerFeature(response.shap_contributions)
    /\ ExplainerReturned => OneEntryPerFeature(response.contributions)

\* C14: when the values paired with the feature names are not as many as
\* the names, the request fails with an error and returns no mapping.
C14_MismatchRaises ==
    /\ PredictServed
           => Len(PairedValues(request.application.shap_values)) = Len(FittedNames)
    /\ BatchServed
           => \A i \in 1..Len(request.applications) :
                  Len(PairedValues(request.applications[i].shap_values)) = Len(FittedNames)

Keys(raw) == [i \in 1..Len(raw) |-> raw[i][1]]

\* The keys are the fitted names, in their order, as far as the mapping goes.
InFittedOrder(raw) ==
    /\ Len(raw) <= Len(FittedNames)
    /\ \A i \in 1..Len(raw) : raw[i][1] = FittedNames[i]

\* C15 as claimed: the mapping of /predict and the mapping of
\* get_feature_contributions both iterate in feature-vector order.
C15_BothInFeatureOrder ==
    /\ PredictServed => InFittedOrder(response.shap_contributions)
    /\ ExplainerReturned => InFittedOrder(response.contributions)

\* C15 as amended: the mapping of /predict iterates in feature-vector
\* order; the mapping of get_feature_contributions holds the value of every
\* feature under its name and iterates by descending absolute contribution,
\* equal magnitudes in feature-vector order.
C15_PredictInFeatureOrder ==
    /\ PredictServed =>
           /\ InFittedOrder(response.shap_contributions)
           /\ \A i \in 1..Len(response.shap_contributions) :
                  response.shap_contributions[i][2]
                      = PairedValues(request.application.shap_values)[i]
    /\ ExplainerReturned =>
           LET raw == response.contributions
               PosOfName(name) == CHOOSE k \in 1..Len(FittedNames) : FittedNames[k] = name
           IN  /\ OneEntryPerFeature(raw)
               /\ \A i \in 1..Len(raw) :
                      raw[i][2] = request.application.shap_values.data[1][PosOfName(raw[i][1])]
               /\ \A i, j \in 1..Len(raw) :
                      i < j =>
                          \/ Abs(raw[i][2]) > Abs(raw[j][2])
                          \/ /\ Abs(raw[i][2]) = Abs(raw[j][2])
                             /\ PosOfName(raw[i][1]) < PosOfName(raw[j][1])

\* get_feature_contributions returning the documented example with F first.
C15_Witness ==
    /\ ExplainerReturned
    /\ Keys(response.contributions) = <<"f6", "f2", "f1", "f3", "f4", "f5">>

\* C16: every record of a served batch carries the prediction, the
\* probability, the top factors and the row's raw contribution mapping.
C16_BatchRecordIsFull ==
    BatchServed =>
        \A i \in 1..Len(response.predictions) :
            LET record == response.predictions[i]
            IN  /\ {"prediction", "probability", "top_factors"} \subseteq DOMAIN record
                /\ \/ /\ "raw_contributions" \in DOMAIN record
                      /\ record.raw_contributions = RawOf(request.applications[i])
                   \/ /\ "shap_contributions" \in DOMAIN record
                      /\ record.shap_contributions = RawOf(request.applications[i])

\* The part of a view that both paths return.
Decision(view) == <<view.prediction, view.probability, view.top_factors>>

\* C17: whatever /predict returned for an application, label, rounded
\* probability and top factors, is what every batch record for the same
\* application holds, at any position and among any other rows.
C17_SingleAndBatchAgree ==
    \A a, b \in served :
        /\ a.path = "predict"
        /\ b.path = "batch_predict"
        /\ a.application = b.application
        => Decision(a) = Decision(b)

\* An application served by /predict and as the second row of a batch.
C17_Witness ==
    \E a, b \in served :
        /\ a.path = "predict" /\ b.path = "batch_predict"
        /\ a.application = b.application
        /\ b.position = 2

C19_CountersMatchServed ==
    /\ metrics.total_requests = completed.ok
    /\ metrics.approved_count + metrics.rejected_count = completed.decisions

\* C21: /health answers 200 in every state, reports for the model and for
\* the preprocessor whether each is loaded, and changes no counter.
C21_HealthAlwaysSucceeds ==
    request.endpoint = "health" =>
        /\ response.status_code = 200
        /\ response.model_loaded = (model # None)
        /\ response.preprocessor_loaded = (preprocessor # None)
        /\ metrics = metrics_before

\* /health asked of a service without a model, after a request that failed.
C21_Witness ==
    /\ request.endpoint = "health"
    /\ ~ModelAvailable
    /\ metrics.error_count > 0
    /\ response.status_code = 200 /\ ~response.model_loaded

\* The class-1 value of every feature of a per-class result, under its name.
PositiveClass(shap_values) ==
    [i \in 1..Min(Len(FittedNames), Len(shap_values.data[1])) |->
        <<FittedNames[i], shap_values.data[1][i][2]>>]

\* C22: for a 3-dimensional result the mapping holds, for every feature,
\* the class-1 value of that feature, and the top factors are ranked from it.
C22_PositiveClassSlice ==
    /\ PredictServed /\ request.application.shap_values.ndim = 3
           => response.shap_contributions = PositiveClass(request.application.shap_values)
    /\ BatchServed
           => \A i \in 1..Len(request.applications) :
                  request.applications[i].shap_values.ndim = 3
                      => response.predictions[i].top_factors
                             = TopFactors(PositiveClass(request.applications[i].shap_values))

\* C23: model, preprocessor and explainer are all loaded or all None, so a
\* request that passes the availability check finds the explainer.
C23_LoadAllOrNothing ==
    /\ \/ model = None /\ preprocessor = None /\ explainer = None
       \/ model # None /\ preprocessor # None /\ explainer # None
    /\ rows_started > 0 => explainer # None

\* A request refused by a service whose load failed, nothing left loaded.
C23_Witness ==
    /\ request.endpoint = "predict" /\ response.status_code = 503
    /\ model = None /\ preprocessor = None /\ explainer = None
    /\ feature_names_list = None

\* C24: the decisions counted are the predictions counted, single and
\* batch, and total_requests is the number of requests answered 200.
C24_CountersBalance ==
    /\ metrics.approved_count + metrics.rejected_count
           = metrics.total_predictions + metrics.total_batch_predictions
    /\ metrics.total_requests = completed.ok

\* C25: a /predict or /batch_predict request that fails adds one to
\* error_count and leaves every other counter as it was.
C25_FailureCountsOnlyError ==
    /\ request.endpoint \in {"predict", "batch_predict"}
    /\ response.status_code # 200
    => metrics = [metrics_before EXCEPT !.error_count = @ + 1]

\* C26: /metrics answers 200 in every counter state, with an approval rate
\* within 0..100 percent that is 0 without decisions and an average response
\* time that is 0 without requests, and changes no counter.
C26_StatsAlwaysServed ==
    request.endpoint = "metrics" =>
        /\ response.status_code = 200
        /\ metrics = metrics_before
        /\ response.stats.approval_rate_percent \in 0..10000
        /\ metrics.approved_count + metrics.rejected_count = 0
               => response.stats.approval_rate_percent = 0
        /\ metrics.total_requests = 0 => response.stats.avg_response_time_seconds = 0
        /\ \A counter \in DOMAIN metrics \ {"total_response_time"} :
               response.stats[counter] = metrics[counter]

\* /metrics read when a request has been counted and no decision has.
C26_Witness ==
    /\ request.endpoint = "metrics" /\ response.status_code = 200
    /\ metrics.total_requests > 0
    /\ metrics.approved_count + metrics.rejected_count = 0
    /\ metrics.error_count > 0

====
